---- MODULE Spec2Model ----
(***************************************************************************)
(* Model of the stored procedure create_view_using_metadata                *)
(* (src/JavaScript/sf_create_view_using_metadata.js).                      *)
(*                                                                         *)
(* JavaScript and SQL strings are sequences of one-character strings, so   *)
(* that concatenation is \o, substring(1) is Tail, charAt(0) is Head and   *)
(* string equality is sequence equality.  The database (the catalog and    *)
(* the rows LATERAL FLATTEN produces) is the variable db; a query returns  *)
(* the DISTINCT rows its SQL text computes from db, in any order.          *)
(***************************************************************************)
EXTENDS Integers, Sequences, FiniteSets, TLC

VARIABLES
    db,                     \* the data the queries read (catalog, flattened rows)
    COLUMN_CASE,            \* procedure parameter
    COLUMN_TYPE,            \* procedure parameter
    pc,                     \* position in the procedure body
    table_list,             \* line 74
    col_list,               \* line 75
    array_num,              \* line 77
    sqlMetaRes,             \* result set of the catalog query (line 100)
    element_res,            \* result set of the leaf-path query (line 124)
    array_res,              \* result set of the array-element query (line 172)
    simple_array_col_list,  \* line 157
    object_array_col_list,  \* line 158
    view_ddl,               \* line 251
    issued,                 \* statements handed to the executor, in order
    run,                    \* 1 for the first call of the procedure, 2 for a repeated call
    first_view              \* col_list and table_list of the first call, kept by the caller

vars == <<db, COLUMN_CASE, COLUMN_TYPE, pc, table_list, col_list, array_num,
          sqlMetaRes, element_res, array_res, simple_array_col_list,
          object_array_col_list, view_ddl, issued, run, first_view>>

----------------------------------------------------------------------------
(* Bounds of the model: the number of cataloged columns, and the number of *)
(* rows the flattened data of the table holds in all.                      *)

MaxCols == 2
MaxRows == 4

----------------------------------------------------------------------------
(* Characters and strings.                                                 *)

Lower == <<"a","b","c","d","e","f","g","h","i","j","k","l","m",
           "n","o","p","q","r","s","t","u","v","w","x","y","z">>
Upper == <<"A","B","C","D","E","F","G","H","I","J","K","L","M",
           "N","O","P","Q","R","S","T","U","V","W","X","Y","Z">>
DigitChar == <<"0","1","2","3","4","5","6","7","8","9">>

Range(s) == { s[i] : i \in 1..Len(s) }

\* [a-zA-Z0-9]
IsAlnum(c) == c \in Range(Lower) \cup Range(Upper) \cup Range(DigitChar)
\* \w
IsWord(c) == IsAlnum(c) \/ c = "_"

\* String.prototype.toUpperCase, one character
ToUpperChar(c) ==
    IF \E i \in 1..Len(Lower) : Lower[i] = c
    THEN Upper[CHOOSE i \in 1..Len(Lower) : Lower[i] = c]
    ELSE c

\* s.toUpperCase().charAt(0): the empty string when s is empty
UpperCharAt0(s) == IF s = <<>> THEN <<>> ELSE <<ToUpperChar(Head(s))>>

\* s.substring(1)
Substring1(s) == IF s = <<>> THEN <<>> ELSE Tail(s)

\* JavaScript's conversion of a non-negative number to a string
RECURSIVE NumStr(_)
NumStr(n) ==
    IF n < 10 THEN <<DigitChar[n + 1]>>
    ELSE NumStr(n \div 10) \o <<DigitChar[(n % 10) + 1]>>

\* SQL NULL in the column f.index (the row is no array element)
NullIndex == -1

\* JavaScript's conversion of getColumnValue(4) to a string
IndexStr(i) == IF i = NullIndex THEN <<"n","u","l","l">> ELSE NumStr(i)

RECURSIVE Concat(_)
Concat(ss) == IF ss = <<>> THEN <<>> ELSE Head(ss) \o Concat(Tail(ss))

\* string literals of the procedure
SEP == <<",", " ", "\n">>
AS == <<" ", "a", "s", " ">>
CAST == <<":", ":">>
COLON == <<":">>
UNDERSCORE == <<"_">>
DQUOTE == <<"\"">>
DOT_VALUE == <<".", "v", "a", "l", "u", "e", ":">>
FLATTEN_OPEN == <<",", "\n", " ", "L","A","T","E","R","A","L", " ",
                  "F","L","A","T","T","E","N", "(">>
FLATTEN_CLOSE == <<")", " ", "a">>
DDL_HEAD == <<"C","R","E","A","T","E"," ","O","R"," ","R","E","P","L","A","C","E",
              " ","V","I","E","W"," ">>
DDL_AS_SELECT == <<"_","V","W"," ","A","S"," ","\n","S","E","L","E","C","T"," ","\n">>
DDL_FROM == <<"\n","F","R","O","M"," ">>

T_ARRAY == <<"A","R","R","A","Y">>
T_BOOLEAN == <<"B","O","O","L","E","A","N">>
T_FLOAT == <<"F","L","O","A","T">>
T_STRING == <<"S","T","R","I","N","G">>
T_OBJECT == <<"O","B","J","E","C","T">>
T_INTEGER == <<"I","N","T","E","G","E","R">>
T_VARCHAR == <<"V","A","R","C","H","A","R">>
T_NULL_VALUE == <<"N","U","L","L","_","V","A","L","U","E">>

----------------------------------------------------------------------------
(* The SQL expressions of lines 71-73, 86, 119-120 and 168.                *)

\* regexp_replace(s, '\[(.+)\]'): the leftmost '[' that has a ']' at least two
\* characters later, through the last ']' (.+ is greedy), is removed
StripBrackets(s) ==
    LET opens == { i \in 1..Len(s) :
                     s[i] = "[" /\ \E j \in (i + 2)..Len(s) : s[j] = "]" }
    IN  IF opens = {} THEN s
        ELSE LET i == CHOOSE x \in opens : \A y \in opens : x <= y
                 j == CHOOSE x \in (i + 2)..Len(s) :
                        s[x] = "]" /\ \A y \in (x + 1)..Len(s) : s[y] # "]"
             IN  SubSeq(s, 1, i - 1) \o SubSeq(s, j + 1, Len(s))

\* regexp_replace(s, '(\w+)', '"\1"'): every maximal run of word characters is
\* wrapped in double quotes
QuoteWords(s) ==
    Concat([i \in 1..Len(s) |->
        (IF IsWord(s[i]) /\ (i = 1 \/ ~IsWord(s[i - 1])) THEN DQUOTE ELSE <<>>)
        \o <<s[i]>>
        \o (IF IsWord(s[i]) /\ (i = Len(s) \/ ~IsWord(s[i + 1])) THEN DQUOTE ELSE <<>>)])

\* REGEXP_REPLACE(s, '[^a-zA-Z0-9]', '_')
Sanitize(s) == [i \in 1..Len(s) |-> IF IsAlnum(s[i]) THEN s[i] ELSE "_"]

\* line 71
path_name(path) == QuoteWords(StripBrackets(path))

\* line 73
alias_name(path) == Sanitize(StripBrackets(path))

\* line 83: COLUMN_CASE.toUpperCase().charAt(0) == 'M'
MatchCase == UpperCharAt0(COLUMN_CASE) = <<"M">>

\* line 85: COLUMN_TYPE.toUpperCase().charAt(0) == 'S'
StringTypes == UpperCharAt0(COLUMN_TYPE) = <<"S">>

\* lines 76, 83-84
alias_dbl_quote == IF MatchCase THEN DQUOTE ELSE <<>>

\* lines 72, 85-86: the DECODE over typeof(f.value)
attribute_type(typeof) ==
    IF StringTypes
    THEN IF typeof = T_ARRAY THEN T_ARRAY ELSE T_STRING
    ELSE LET c == SubSeq(typeof, 1, 1)
         IN  IF c = <<"A">> THEN T_ARRAY
             ELSE IF c = <<"B">> THEN T_BOOLEAN
             ELSE IF c = <<"I">> THEN T_FLOAT
             ELSE IF c = <<"D">> THEN T_FLOAT
             ELSE T_STRING

\* contains(f.path, '[')
ContainsBracket(s) == \E i \in 1..Len(s) : s[i] = "["

\* line 168: REGEXP_REPLACE(f.path, '.+(\w+\[.+\]).+', 'SubArrayEle') = 'SubArrayEle',
\* which is so exactly when the pattern matches (then it matches the whole path)
IsSubArrayEle(s) ==
    \E k \in 3..Len(s) : \E j \in (k + 2)..(Len(s) - 1) :
        s[k] = "[" /\ IsWord(s[k - 1]) /\ s[j] = "]"

\* lines 91-95: the catalog query, SELECT DISTINCT column_name, data_type
MetaQuery == db.columns

\* lines 113-120: the leaf-path query over LATERAL FLATTEN(col, RECURSIVE=>true)
ElementQuery(col) ==
    { [path_name |-> path_name(f.path),
       attribute_type |-> attribute_type(f.typeof),
       alias_name |-> alias_name(f.path)] :
        f \in { g \in db.flat[col] : g.typeof # T_OBJECT /\ ~ContainsBracket(g.path) } }

\* lines 161-168: the array-element query over LATERAL FLATTEN(col:path, RECURSIVE=>true)
ArrayQuery(col, path) ==
    { [path_name |-> path_name(f.path),
       attribute_type |-> attribute_type(f.typeof),
       attribute_name |-> alias_name(f.path),
       index |-> f.index] :
        f \in { g \in db.arrays[<<col, path>>] : ~IsSubArrayEle(g.path) } }

\* the orders in which a result set can enumerate a set of rows
Enumerations(S) ==
    { s \in [1..Cardinality(S) -> S] : \A i, j \in 1..Cardinality(S) : s[i] = s[j] => i = j }

\* a fresh result set: snowflake.Statement.execute()
ResultSet(rows) == [rows |-> rows, pos |-> 0]

\* ResultSet.next(): whether there is a next row
HasNext(rs) == rs.pos < Len(rs.rows)

Advance(rs) == [rs EXCEPT !.pos = rs.pos + 1]

NoResult == ResultSet(<<>>)

----------------------------------------------------------------------------
(* The call's inputs and the data the model ranges over.                   *)

SCHEMA_NAME == <<"S">>
V_TAB_NM == <<"T">>

CaseInputs == { <<"m","a","t","c","h"," ","c","o","l"," ","c","a","s","e">>,
                <<"u","p","p","e","r","c","a","s","e"," ","c","o","l","s">> }
TypeInputs == { <<"m","a","t","c","h"," ","d","a","t","a","t","y","p","e","s">>,
                <<"s","t","r","i","n","g"," ","d","a","t","a","t","y","p","e","s">> }

T_VARIANT == <<"V","A","R","I","A","N","T">>
T_NUMBER == <<"N","U","M","B","E","R">>
T_TEXT == <<"T","E","X","T">>

\* rows of information_schema.columns for the table
ColumnUniverse ==
    { [COLUMN_NAME |-> <<"I">>, DATA_TYPE |-> T_NUMBER],
      [COLUMN_NAME |-> <<"N">>, DATA_TYPE |-> T_TEXT],
      [COLUMN_NAME |-> <<"J">>, DATA_TYPE |-> T_VARIANT] }

VariantNames == { c.COLUMN_NAME : c \in { d \in ColumnUniverse : d.DATA_TYPE = T_VARIANT } }

\* rows of LATERAL FLATTEN(<column>, RECURSIVE=>true): f.path and typeof(f.value)
FlatUniverse ==
    { [path |-> <<>>, typeof |-> T_NULL_VALUE],
      [path |-> <<"a">>, typeof |-> T_VARCHAR],
      [path |-> <<"a">>, typeof |-> T_INTEGER],
      [path |-> <<"r">>, typeof |-> T_ARRAY],
      [path |-> <<"p">>, typeof |-> T_ARRAY],
      [path |-> <<"r","[","0","]">>, typeof |-> T_INTEGER] }

\* rows of LATERAL FLATTEN(<column>:<array path>, RECURSIVE=>true)
ArrayUniverse ==
    { [path |-> <<"[","0","]">>, typeof |-> T_INTEGER, index |-> 0],
      [path |-> <<"[","1","]">>, typeof |-> T_INTEGER, index |-> 1],
      [path |-> <<"[","0","]">>, typeof |-> T_OBJECT, index |-> 0],
      [path |-> <<"[","0","]",".","t">>, typeof |-> T_VARCHAR, index |-> NullIndex],
      [path |-> <<"[","0","]",".","s","[","1","]",".","x">>, typeof |-> T_VARCHAR, index |-> NullIndex] }

Small(S, n) == { x \in SUBSET S : Cardinality(x) <= n }

RECURSIVE SumCard(_, _)
SumCard(f, D) ==
    IF D = {} THEN 0
    ELSE LET k == CHOOSE x \in D : TRUE
         IN  Cardinality(f[k]) + SumCard(f, D \ {k})

\* the number of flattened rows a database holds
DataRows(d) == SumCard(d.flat, DOMAIN d.flat) + SumCard(d.arrays, DOMAIN d.arrays)

ArrayKeys ==
    { <<col, path_name(f.path)>> : col \in VariantNames,
                                   f \in { g \in FlatUniverse : g.typeof = T_ARRAY } }

\* the array paths the leaf-path query reports for col
ArrayKeysOf(col, flat) ==
    { <<col, path_name(f.path)>> : f \in { g \in flat : g.typeof = T_ARRAY } }

\* the databases: only a cataloged VARIANT column has flattened rows, and only an
\* array it holds has elements
Databases ==
    { d \in [columns : Small(ColumnUniverse, MaxCols),
             flat : [VariantNames -> Small(FlatUniverse, MaxRows)],
             arrays : [ArrayKeys -> Small(ArrayUniverse, MaxRows)]] :
        /\ DataRows(d) <= MaxRows
        /\ \A col \in VariantNames :
             col \notin { c.COLUMN_NAME : c \in d.columns } => d.flat[col] = {}
        /\ \A k \in ArrayKeys :
             k \notin ArrayKeysOf(k[1], d.flat[k[1]]) => d.arrays[k] = {} }

----------------------------------------------------------------------------
(* The text the procedure builds.                                          *)

\* lines 146-147, 205-206, 213-214, 224-225, 231-232, 242-244: the separator goes
\* before the appended text when the list is not empty
AppendTo(list, text) == (IF list # <<>> THEN list \o SEP ELSE list) \o text

\* the alias quoting applied to a passthrough column as well
ScalarFragment_quoted(col) == alias_dbl_quote \o col \o alias_dbl_quote

\* line 246
ScalarFragment(col) == col

\* lines 148-150
NonArrayFragment(col, e) ==
    col \o COLON \o e.path_name \o CAST \o e.attribute_type
        \o AS \o col \o UNDERSCORE \o e.alias_name

\* lines 207-210
SimpleArrayFragment(col, e, a) ==
    col \o COLON \o e.path_name \o <<"[">> \o IndexStr(a.index) \o <<"]">>
        \o CAST \o a.attribute_type
        \o AS \o alias_dbl_quote \o col \o UNDERSCORE \o e.alias_name
        \o UNDERSCORE \o IndexStr(a.index) \o alias_dbl_quote

\* lines 215-217
ObjectArrayFragment(col, e, a, n) ==
    <<"a">> \o NumStr(n) \o DOT_VALUE \o Substring1(a.path_name)
        \o CAST \o a.attribute_type
        \o AS \o alias_dbl_quote \o col \o UNDERSCORE \o e.alias_name
        \o a.attribute_name \o alias_dbl_quote

\* the source aliased with the array id before its increment
FlattenClause_stale(col, e, n) ==
    FLATTEN_OPEN \o col \o COLON \o e.path_name \o FLATTEN_CLOSE \o NumStr(n - 1)

\* line 234
FlattenClause(col, e, n) ==
    FLATTEN_OPEN \o col \o COLON \o e.path_name \o FLATTEN_CLOSE \o NumStr(n)

\* the test of line 204 inverted
IsSimpleElement_inverted(a) == Substring1(a.path_name) # <<>>

\* line 204: the element path name is empty, so this is a simple array element
IsSimpleElement(a) == Substring1(a.path_name) = <<>>

\* line 129: the restriction that the path must be populated
PathPopulated(e) == e.path_name # <<>>

\* the counter declared anew for each array
NextArrayNum_local(n) == 0 + 1

\* line 156
NextArrayNum(n) == n + 1

\* lines 251-253
ViewDdl(cols, tables) ==
    DDL_HEAD \o V_TAB_NM \o DDL_AS_SELECT \o cols \o DDL_FROM \o tables

\* line 74
BaseTable == SCHEMA_NAME \o <<".">> \o V_TAB_NM

----------------------------------------------------------------------------
(* The procedure body.                                                     *)

\* the row getColumnValue reads once next() has returned true
CurRow(rs) == rs.rows[rs.pos]

Issue(kind, ok) == issued' = Append(issued, [kind |-> kind, ok |-> ok])

\* the error caught and the column skipped
Throws_swallowed(kind) == Issue(kind, FALSE) /\ pc' = "meta_loop"

\* execute() throws: the procedure has no try/catch, the call ends there
Throws(kind) == Issue(kind, FALSE) /\ pc' = "aborted"

Init ==
    /\ db \in Databases
    /\ COLUMN_CASE \in CaseInputs
    /\ COLUMN_TYPE \in TypeInputs
    /\ pc = "start"
    /\ table_list = BaseTable
    /\ col_list = <<>>
    /\ array_num = 0
    /\ sqlMetaRes = NoResult
    /\ element_res = NoResult
    /\ array_res = NoResult
    /\ simple_array_col_list = <<>>
    /\ object_array_col_list = <<>>
    /\ view_ddl = <<>>
    /\ issued = <<>>
    /\ run = 1
    /\ first_view = [col_list |-> <<>>, table_list |-> <<>>]

\* lines 99-100
ExecMetaQuery ==
    /\ pc = "start"
    /\ \/ \E rows \in Enumerations(MetaQuery) :
            /\ sqlMetaRes' = ResultSet(rows)
            /\ Issue("catalog", TRUE)
            /\ pc' = "meta_loop"
       \/ Throws("catalog") /\ UNCHANGED sqlMetaRes
    /\ UNCHANGED <<db, COLUMN_CASE, COLUMN_TYPE, table_list, col_list, array_num,
                   element_res, array_res, simple_array_col_list,
                   object_array_col_list, view_ddl, run, first_view>>

\* lines 106, 110, 240-247
ScalarColumn ==
    /\ pc = "meta_loop"
    /\ HasNext(sqlMetaRes)
    /\ LET m == Advance(sqlMetaRes)
       IN  /\ CurRow(m).DATA_TYPE # T_VARIANT
           /\ sqlMetaRes' = m
           /\ col_list' = AppendTo(col_list, ScalarFragment(CurRow(m).COLUMN_NAME))
    /\ UNCHANGED <<db, COLUMN_CASE, COLUMN_TYPE, pc, table_list, array_num,
                   element_res, array_res, simple_array_col_list,
                   object_array_col_list, view_ddl, issued, run, first_view>>

\* lines 106, 110, 113-124
VariantColumn ==
    /\ pc = "meta_loop"
    /\ HasNext(sqlMetaRes)
    /\ LET m == Advance(sqlMetaRes)
       IN  /\ CurRow(m).DATA_TYPE = T_VARIANT
           /\ sqlMetaRes' = m
           /\ \/ \E rows \in Enumerations(ElementQuery(CurRow(m).COLUMN_NAME)) :
                   /\ element_res' = ResultSet(rows)
                   /\ Issue("element", TRUE)
                   /\ pc' = "element_loop"
              \/ Throws("element") /\ UNCHANGED element_res
    /\ UNCHANGED <<db, COLUMN_CASE, COLUMN_TYPE, table_list, col_list, array_num,
                   array_res, simple_array_col_list, object_array_col_list,
                   view_ddl, run, first_view>>

\* line 129: the loop ends when there is no next row or the row's path is empty
ElementLoopExit ==
    /\ pc = "element_loop"
    /\ \/ /\ ~HasNext(element_res)
          /\ UNCHANGED element_res
       \/ /\ HasNext(element_res)
          /\ ~PathPopulated(CurRow(Advance(element_res)))
          /\ element_res' = Advance(element_res)
    /\ pc' = "meta_loop"
    /\ UNCHANGED <<db, COLUMN_CASE, COLUMN_TYPE, table_list, col_list, array_num,
                   sqlMetaRes, array_res, simple_array_col_list,
                   object_array_col_list, view_ddl, issued, run, first_view>>

\* lines 129, 143-152
NonArrayElement ==
    /\ pc = "element_loop"
    /\ HasNext(element_res)
    /\ LET r == Advance(element_res)
           e == CurRow(r)
       IN  /\ PathPopulated(e)
           /\ e.attribute_type # T_ARRAY
           /\ element_res' = r
           /\ col_list' = AppendTo(col_list,
                              NonArrayFragment(CurRow(sqlMetaRes).COLUMN_NAME, e))
    /\ UNCHANGED <<db, COLUMN_CASE, COLUMN_TYPE, pc, table_list, array_num,
                   sqlMetaRes, array_res, simple_array_col_list,
                   object_array_col_list, view_ddl, issued, run, first_view>>

\* lines 129, 155-172
ArrayElement ==
    /\ pc = "element_loop"
    /\ HasNext(element_res)
    /\ LET r == Advance(element_res)
           e == CurRow(r)
       IN  /\ PathPopulated(e)
           /\ e.attribute_type = T_ARRAY
           /\ element_res' = r
           /\ array_num' = NextArrayNum(array_num)
           /\ simple_array_col_list' = <<>>
           /\ object_array_col_list' = <<>>
           /\ \/ \E rows \in Enumerations(
                       ArrayQuery(CurRow(sqlMetaRes).COLUMN_NAME, e.path_name)) :
                   /\ array_res' = ResultSet(rows)
                   /\ Issue("array", TRUE)
                   /\ pc' = "array_loop"
              \/ Throws("array") /\ UNCHANGED array_res
    /\ UNCHANGED <<db, COLUMN_CASE, COLUMN_TYPE, table_list, col_list, sqlMetaRes,
                   view_ddl, run, first_view>>

\* lines 203-211
SimpleArrayElement ==
    /\ pc = "array_loop"
    /\ HasNext(array_res)
    /\ LET r == Advance(array_res)
           a == CurRow(r)
       IN  /\ IsSimpleElement(a)
           /\ array_res' = r
           /\ simple_array_col_list' =
                  AppendTo(simple_array_col_list,
                           SimpleArrayFragment(CurRow(sqlMetaRes).COLUMN_NAME,
                                               CurRow(element_res), a))
    /\ UNCHANGED <<db, COLUMN_CASE, COLUMN_TYPE, pc, table_list, col_list, array_num,
                   sqlMetaRes, element_res, object_array_col_list, view_ddl,
                   issued, run, first_view>>

\* lines 203-204, 212-218
ObjectArrayElement ==
    /\ pc = "array_loop"
    /\ HasNext(array_res)
    /\ LET r == Advance(array_res)
           a == CurRow(r)
       IN  /\ ~IsSimpleElement(a)
           /\ array_res' = r
           /\ object_array_col_list' =
                  AppendTo(object_array_col_list,
                           ObjectArrayFragment(CurRow(sqlMetaRes).COLUMN_NAME,
                                               CurRow(element_res), a, array_num))
    /\ UNCHANGED <<db, COLUMN_CASE, COLUMN_TYPE, pc, table_list, col_list, array_num,
                   sqlMetaRes, element_res, simple_array_col_list, view_ddl,
                   issued, run, first_view>>

\* lines 203, 223-227: no object array elements were found
AddSimpleArray ==
    /\ pc = "array_loop"
    /\ ~HasNext(array_res)
    /\ object_array_col_list = <<>>
    /\ col_list' = AppendTo(col_list, simple_array_col_list)
    /\ pc' = "element_loop"
    /\ UNCHANGED <<db, COLUMN_CASE, COLUMN_TYPE, table_list, array_num, sqlMetaRes,
                   element_res, array_res, simple_array_col_list,
                   object_array_col_list, view_ddl, issued, run, first_view>>

\* lines 203, 230-235
AddObjectArray ==
    /\ pc = "array_loop"
    /\ ~HasNext(array_res)
    /\ object_array_col_list # <<>>
    /\ col_list' = AppendTo(col_list, object_array_col_list)
    /\ table_list' = table_list \o FlattenClause(CurRow(sqlMetaRes).COLUMN_NAME,
                                                 CurRow(element_res), array_num)
    /\ pc' = "element_loop"
    /\ UNCHANGED <<db, COLUMN_CASE, COLUMN_TYPE, array_num, sqlMetaRes,
                   element_res, array_res, simple_array_col_list,
                   object_array_col_list, view_ddl, issued, run, first_view>>

\* lines 106, 251-257: the catalog loop is over, the view is built and created
CreateView ==
    /\ pc = "meta_loop"
    /\ ~HasNext(sqlMetaRes)
    /\ view_ddl' = ViewDdl(col_list, table_list)
    /\ \/ Issue("ddl", TRUE) /\ pc' = "done"
       \/ Throws("ddl")
    /\ UNCHANGED <<db, COLUMN_CASE, COLUMN_TYPE, table_list, col_list, array_num,
                   sqlMetaRes, element_res, array_res, simple_array_col_list,
                   object_array_col_list, run, first_view>>

\* the caller calls the procedure again on the same table with the same parameters
Rerun ==
    /\ pc = "done"
    /\ run = 1
    /\ run' = 2
    /\ first_view' = [col_list |-> col_list, table_list |-> table_list]
    /\ pc' = "start"
    /\ table_list' = BaseTable
    /\ col_list' = <<>>
    /\ array_num' = 0
    /\ sqlMetaRes' = NoResult
    /\ element_res' = NoResult
    /\ array_res' = NoResult
    /\ simple_array_col_list' = <<>>
    /\ object_array_col_list' = <<>>
    /\ view_ddl' = <<>>
    /\ issued' = <<>>
    /\ UNCHANGED <<db, COLUMN_CASE, COLUMN_TYPE>>

Next ==
    \/ ExecMetaQuery
    \/ ScalarColumn
    \/ VariantColumn
    \/ ElementLoopExit
    \/ NonArrayElement
    \/ ArrayElement
    \/ SimpleArrayElement
    \/ ObjectArrayElement
    \/ AddSimpleArray
    \/ AddObjectArray
    \/ CreateView

Spec == Init /\ [][Next]_vars

\* a table whose leaf-path query returns no empty path, generated twice
InitRerun ==
    /\ Init
    /\ \A col \in VariantNames : \A e \in ElementQuery(col) : PathPopulated(e)

NextRerun == Next \/ Rerun

SpecRerun == InitRerun /\ [][NextRerun]_vars

----------------------------------------------------------------------------
(* Reading the generated text back: the fragments of the projection list   *)
(* and the sources of the source list.                                     *)

\* the positions at which sub occurs in s
Occurrences(s, sub) ==
    { i \in 1..(Len(s) - Len(sub) + 1) :
        s[i] = sub[1] /\ SubSeq(s, i, i + Len(sub) - 1) = sub }

Least(S) == CHOOSE x \in S : \A y \in S : x <= y
Greatest(S) == CHOOSE x \in S : \A y \in S : x >= y

RECURSIVE SplitOn(_, _)
SplitOn(s, sep) ==
    LET occ == Occurrences(s, sep)
    IN  IF occ = {} THEN <<s>>
        ELSE LET i == Least(occ)
             IN  <<SubSeq(s, 1, i - 1)>> \o SplitOn(SubSeq(s, i + Len(sep), Len(s)), sep)

RECURSIVE JoinWith(_, _)
JoinWith(ss, sep) ==
    IF ss = <<>> THEN <<>>
    ELSE IF Len(ss) = 1 THEN ss[1]
    ELSE ss[1] \o sep \o JoinWith(Tail(ss), sep)

\* the pieces the separator ", \n" delimits in a projection list
Pieces(list) == IF list = <<>> THEN <<>> ELSE SplitOn(list, SEP)

\* the pieces that hold a fragment
FragmentTexts(list) == SelectSeq(Pieces(list), LAMBDA t : t # <<>>)

\* the number of leading decimal digits of s
RECURSIVE DigitRun(_)
DigitRun(s) ==
    IF s # <<>> /\ Head(s) \in Range(DigitChar) THEN 1 + DigitRun(Tail(s)) ELSE 0

\* the source an expression reads from: a<n> for "a<n>.value:...", else the base table
SourceRef(expr) ==
    LET k == DigitRun(Substring1(expr))
    IN  IF /\ expr # <<>>
           /\ Head(expr) = "a"
           /\ k >= 1
           /\ SubSeq(expr, k + 2, k + 1 + Len(DOT_VALUE)) = DOT_VALUE
        THEN SubSeq(expr, 1, k + 1)
        ELSE BaseTable

\* a scalar passthrough has no " as ": its alias is the column name
Fragment(text) ==
    LET occ == Occurrences(text, AS)
    IN  IF occ = {}
        THEN [alias |-> text, expression |-> text, sourceRef |-> BaseTable, derived |-> FALSE]
        ELSE LET i == Greatest(occ)
                 expr == SubSeq(text, 1, i - 1)
             IN  [alias |-> SubSeq(text, i + Len(AS), Len(text)),
                  expression |-> expr,
                  sourceRef |-> SourceRef(expr),
                  derived |-> TRUE]

Fragments(list) ==
    LET texts == FragmentTexts(list)
    IN  [i \in 1..Len(texts) |-> Fragment(texts[i])]

FragmentSet(list) == Range(Fragments(list))

\* the aliases a<n> of the LATERAL FLATTEN sources of a source list, in order
AuxAliases(tables) ==
    LET parts == SplitOn(tables, FLATTEN_OPEN)
    IN  [i \in 1..(Len(parts) - 1) |->
            LET t == parts[i + 1]
                j == Greatest(Occurrences(t, <<")", " ">>))
            IN  SubSeq(t, j + 2, Len(t))]

\* the array id of an alias a<n>
RECURSIVE StrNum(_)
StrNum(s) ==
    IF s = <<>> THEN 0
    ELSE 10 * StrNum(SubSeq(s, 1, Len(s) - 1))
         + (CHOOSE d \in 0..9 : DigitChar[d + 1] = s[Len(s)])

AuxIds(tables) ==
    LET aliases == AuxAliases(tables)
    IN  [i \in 1..Len(aliases) |-> StrNum(Tail(aliases[i]))]

Quoted(s) == Len(s) >= 2 /\ Head(s) = "\"" /\ s[Len(s)] = "\""

IssuedKinds == [i \in 1..Len(issued) |-> issued[i].kind]

CountKind(kind) == Cardinality({ i \in 1..Len(issued) : issued[i].kind = kind })

VariantColumns == { c \in db.columns : c.DATA_TYPE = T_VARIANT }

----------------------------------------------------------------------------
(* The claims.                                                             *)

\* C1: with COLUMN_CASE 'match col case', the alias of every fragment derived from
\* a VARIANT column (leaf path, simple array or object array) is wrapped in double
\* quotes in the projection list.
C1_DerivedAliasesQuoted ==
    MatchCase =>
        LET fr == Fragments(col_list)
        IN  \A i \in 1..Len(fr) : fr[i].derived => Quoted(fr[i].alias)

\* C3: in the view one run creates, no two fragments of the projection list carry
\* the same alias.
C3_AliasesUnique ==
    pc = "done" =>
        LET fr == Fragments(col_list)
        IN  \A i, j \in 1..Len(fr) : fr[i].alias = fr[j].alias => i = j

\* C4: a second run over the same data, whose queries may enumerate their rows in
\* another order, yields the same set of (alias, expression, sourceRef) fragments
\* as the first run.
C4_RerunSetEqual ==
    (run = 2 /\ pc = "done") => FragmentSet(col_list) = FragmentSet(first_view.col_list)

\* C8: every row the leaf-path query returns with a non-empty path is processed,
\* wherever a row with an empty path stands in the enumeration: a non-ARRAY row
\* gives its fragment, and every ARRAY row gets its array-element query.
C8_PopulatedPathsProcessed ==
    pc = "done" =>
        /\ \A c \in VariantColumns : \A e \in ElementQuery(c.COLUMN_NAME) :
              (PathPopulated(e) /\ e.attribute_type # T_ARRAY) =>
                  NonArrayFragment(c.COLUMN_NAME, e) \in Range(Pieces(col_list))
        /\ CountKind("array") =
              Cardinality(UNION { { <<c.COLUMN_NAME, e>> :
                                      e \in { x \in ElementQuery(c.COLUMN_NAME) :
                                                PathPopulated(x) /\ x.attribute_type = T_ARRAY } } :
                                  c \in VariantColumns })

\* C10: the projection list never holds an empty piece: no leading, trailing or
\* doubled separator, also after an ARRAY path with no elements.
C10_NoEmptyPiece == <<>> \notin Range(Pieces(col_list))

\* the candidates of one array, from all the rows its query returned: a row
\* with an empty relative path is a simple element, any other an object member
IsObjectMember(a) == a.path_name # <<>>

SimpleCandidates(col, e, rows) ==
    LET simple == SelectSeq(rows, LAMBDA a : ~IsObjectMember(a))
    IN  [i \in 1..Len(simple) |-> SimpleArrayFragment(col, e, simple[i])]

ObjectCandidates(col, e, rows, n) ==
    LET members == SelectSeq(rows, LAMBDA a : IsObjectMember(a))
    IN  [i \in 1..Len(members) |-> ObjectArrayFragment(col, e, members[i], n)]

\* C2: when the rows of an array have all been read: if a row has a non-empty
\* relative path, the projection list gains exactly the object candidates, none of
\* the simple candidates, and the source list gains exactly one
\* LATERAL FLATTEN(<col>:<path>) a<n>; otherwise the projection list gains exactly
\* the simple candidates, one per row, and the source list is unchanged.
C2_ArrayDecisionRule ==
    [][ (pc = "array_loop" /\ pc' = "element_loop") =>
          LET col == CurRow(sqlMetaRes).COLUMN_NAME
              e == CurRow(element_res)
              rows == array_res.rows
              simple == SimpleCandidates(col, e, rows)
              object == ObjectCandidates(col, e, rows, array_num)
          IN  IF \E i \in 1..Len(rows) : IsObjectMember(rows[i])
              THEN /\ FragmentTexts(col_list') = FragmentTexts(col_list) \o object
                   /\ \A i \in 1..Len(simple) :
                          simple[i] \notin Range(FragmentTexts(col_list'))
                   /\ table_list' = table_list \o FLATTEN_OPEN \o col \o COLON
                                        \o e.path_name \o FLATTEN_CLOSE \o NumStr(array_num)
              ELSE /\ FragmentTexts(col_list') = FragmentTexts(col_list) \o simple
                   /\ Len(simple) = Len(rows)
                   /\ table_list' = table_list ]_vars

\* an array with a simple element and an object member has been decided
C2_Witness ==
    /\ pc = "element_loop"
    /\ array_res.pos = Len(array_res.rows)
    /\ \E i, j \in 1..Len(array_res.rows) :
          IsObjectMember(array_res.rows[i]) /\ ~IsObjectMember(array_res.rows[j])
    /\ table_list # BaseTable

\* C5: when the final statement is assembled, the source list starts with the base
\* table, every fragment reading a<n>.value has a source aliased a<n> in the source
\* list, every other fragment reads the base table, and every auxiliary source is
\* read by at least one fragment.
C5_SourcesResolve ==
    view_ddl # <<>> =>
        LET fr == Fragments(col_list)
            aux == AuxAliases(table_list)
        IN  /\ SplitOn(table_list, FLATTEN_OPEN)[1] = BaseTable
            /\ \A i \in 1..Len(fr) :
                  fr[i].sourceRef # BaseTable => \E j \in 1..Len(aux) : aux[j] = fr[i].sourceRef
            /\ \A j \in 1..Len(aux) : \E i \in 1..Len(fr) : fr[i].sourceRef = aux[j]

\* a view with an auxiliary source and a fragment of the base table is assembled
C5_Witness ==
    /\ view_ddl # <<>>
    /\ Len(AuxAliases(table_list)) >= 1
    /\ BaseTable \in { f.sourceRef : f \in FragmentSet(col_list) }

\* C6: when the catalog result holds no VARIANT column, the projection list is the
\* catalog's column names in the order enumerated, unchanged, the source list is
\* the base table alone, and only the catalog query and the view statement are
\* issued.
C6_ScalarPassthrough ==
    (pc = "done" /\ \A i \in 1..Len(sqlMetaRes.rows) : sqlMetaRes.rows[i].DATA_TYPE # T_VARIANT) =>
        /\ col_list = JoinWith([i \in 1..Len(sqlMetaRes.rows) |-> sqlMetaRes.rows[i].COLUMN_NAME], SEP)
        /\ table_list = BaseTable
        /\ IssuedKinds = <<"catalog", "ddl">>

\* a view of two scalar columns has been created
C6_Witness ==
    /\ pc = "done"
    /\ Len(sqlMetaRes.rows) = 2
    /\ \A i \in 1..Len(sqlMetaRes.rows) : sqlMetaRes.rows[i].DATA_TYPE # T_VARIANT

\* C7: a failed executor call is the last statement the run issues: nothing is
\* issued after it, it is not issued again, and the run is aborted.
C7_AbortOnFailure ==
    \A i \in 1..Len(issued) : ~issued[i].ok => (i = Len(issued) /\ pc = "aborted")

\* an array-element query has failed after the catalog and leaf-path queries
C7_Witness ==
    /\ pc = "aborted"
    /\ Len(issued) = 3
    /\ issued[3] = [kind |-> "array", ok |-> FALSE]

\* C9: the array id starts at 0, grows by exactly 1 with each ARRAY leaf path
\* processed and changes at no other step; the auxiliary sources of the source
\* list are in strictly ascending id order, none above the counter.
C9_ArrayIds ==
    [][ /\ pc = "start" => array_num = 0
        /\ IF Len(issued') > Len(issued) /\ issued'[Len(issued')].kind = "array"
           THEN array_num' = array_num + 1
           ELSE array_num' = array_num
        /\ LET ids == AuxIds(table_list')
           IN  /\ \A i, j \in 1..Len(ids) : i < j => ids[i] < ids[j]
               /\ \A i \in 1..Len(ids) : 1 <= ids[i] /\ ids[i] <= array_num' ]_vars

\* two object arrays have been added
C9_Witness ==
    /\ array_num = 2
    /\ AuxIds(table_list) = <<1, 2>>

====
